---- MODULE Spec2Model ----
(***************************************************************************)
(* Upload/query orchestration of the AI Data Assistant front end.          *)
(*                                                                         *)
(* The model follows frontend/src/components/QueryInput.js (the DataAgent  *)
(* component with its handlers handleFileUpload and handleQuery, and the   *)
(* QueryInput form) and frontend/src/components/FileUpload.js (the         *)
(* validation gate in front of the upload).                                *)
(*                                                                         *)
(* JavaScript runs each handler to completion between suspension points.   *)
(* The only suspension points are the two `await axios.post(...)` calls,   *)
(* so every handler is split at its await: one action for the part that    *)
(* runs when the handler is called, one action for the part that runs      *)
(* when the promise settles.  A request that is awaiting is an element of  *)
(* `uploads` or `queries`.                                                 *)
(*                                                                         *)
(* FileUpload's dragActive flag only selects a CSS class of the drop area   *)
(* and is left out, with handleDrag, which does nothing else.              *)
(*                                                                         *)
(* An optional value (null or undefined in the source) is a sequence of    *)
(* length at most one: None for null/undefined, Some(v) for v.             *)
(***************************************************************************)
EXTENDS Integers, Sequences, FiniteSets, TLC

None == << >>

Some(v) == << v >>

Val(o) == o[1]

(***************************************************************************)
(* Bounds of the model.                                                    *)
(***************************************************************************)
\* number of requests (uploads and queries) issued in one behaviour
MaxRequests == 3

\* number of uploads started in one behaviour of the upload side alone
MaxGateUploads == 2

(***************************************************************************)
(* FileUpload.js: the validation gate.                                     *)
(***************************************************************************)
validTypes ==
  { "application/vnd.openxmlformats-officedocument.spreadsheetml.sheet",
    "application/vnd.ms-excel",
    "application/vnd.ms-excel.sheet.macroenabled.12" }

maxSize == 16 * 1024 * 1024

\* candidate files a user may drop or select: [type, size]
Files ==
  { [type |-> "application/vnd.ms-excel", size |-> maxSize],
    [type |-> "application/vnd.ms-excel.sheet.macroenabled.12",
     size |-> maxSize + 1],
    [type |-> "text/csv", size |-> 1024],
    [type |-> "", size |-> maxSize + 1] }

\* a wider choice of candidate files for the validation gate: every listed
\* type within the size limit, listed types above it, unlisted types
GateFiles ==
  { [type |-> "application/vnd.openxmlformats-officedocument.spreadsheetml.sheet",
     size |-> 1024],
    [type |-> "application/vnd.ms-excel", size |-> maxSize],
    [type |-> "application/vnd.ms-excel.sheet.macroenabled.12",
     size |-> maxSize - 1],
    [type |-> "application/vnd.openxmlformats-officedocument.spreadsheetml.sheet",
     size |-> maxSize + 1],
    [type |-> "application/vnd.ms-excel", size |-> 2 * maxSize],
    [type |-> "text/csv", size |-> 1024],
    [type |-> "", size |-> maxSize + 1] }

\* the file slot of the step record when the step has no file
NoFile == [type |-> "-", size |-> 0]

\* the mutant of the size test: >= instead of >
handleFileValidationSizeGE(file) ==
  IF file.type \notin validTypes THEN "type_error"
  ELSE IF file.size >= maxSize THEN "file_too_large"
  ELSE "accept"

\* the verdict of handleFileValidation on a file: the validationError it
\* sets, or "accept" when it goes on to call onFileUpload(file)
handleFileValidation(file) ==
  IF file.type \notin validTypes THEN "type_error"
  ELSE IF file.size > maxSize THEN "file_too_large"
  ELSE "accept"

(***************************************************************************)
(* The upload service: what `await axios.post('/upload')` may settle to.   *)
(***************************************************************************)
\* raw warnings a sheet may carry
W1 == [type |-> "missing_values", message |-> "m1", severity |-> Some("warning")]

W2 == [type |-> "duplicates", message |-> "m2", severity |-> Some("error")]

W3 == [type |-> "mixed_types", message |-> "m3", severity |-> None]

\* all_sheets_data as the backend serialised it: sheets in backend order
SheetsAB ==
  << [name |-> "A", warnings |-> << W1, W2 >>],
     [name |-> "B", warnings |-> << >>] >>

SheetsBA ==
  << [name |-> "B", warnings |-> << W3 >>],
     [name |-> "A", warnings |-> << W1 >>] >>

SheetsNumeric ==
  << [name |-> "2", warnings |-> << W1 >>],
     [name |-> "1", warnings |-> << W2 >>] >>

\* a 2xx upload response body with success == true
successData(sheets, insights, path, id) ==
  [success |-> TRUE, error |-> None, error_type |-> None,
   sheet_errors |-> None, all_sheets_data |-> sheets, insights |-> insights,
   file_path |-> path, dataset_id |-> id]

\* bodies of a 2xx upload response with success == true: two datasets with
\* insights, one without, and one body that lacks all_sheets_data
UploadSuccessData ==
  { successData(Some(SheetsAB), Some([summary_stats |-> "s1"]),
                "/uploads/a.xlsx", "ds1"),
    successData(Some(SheetsBA), None, "/uploads/b.xlsx", "ds2"),
    successData(Some(SheetsNumeric), Some([summary_stats |-> "s3"]),
                "/uploads/c.xlsx", "ds3"),
    successData(None, None, "/uploads/d.xlsx", "ds4") }

SheetErrorsCases ==
  { None,
    Some(<< [sheet |-> "S1", error |-> "bad header"],
            [sheet |-> "S2", error |-> "empty"] >>) }

\* bodies of a 2xx upload response with success == false
UploadFailureData ==
  { [success |-> FALSE, error |-> e, error_type |-> t,
     sheet_errors |-> se, all_sheets_data |-> None,
     insights |-> None, file_path |-> "", dataset_id |-> ""] :
       e \in { None, Some("No valid sheets found") },
       t \in { None, Some("no_valid_sheets") },
       se \in SheetErrorsCases }

\* what the upload call rejects with: err.response absent (transport
\* failure) or err.response.data with optional error and error_type
UploadRejections ==
  { [response |-> None] } \cup
  { [response |-> Some([data |-> [error |-> e, error_type |-> t]])] :
       e \in { None, Some("File too large for server") },
       t \in { None, Some("file_too_large") } }

(***************************************************************************)
(* The query service: what `await axios.post('/query')` may settle to.     *)
(***************************************************************************)
AnalysisResults ==
  { [analysis |-> "a1", metrics |-> "k1", visualizations |-> << >>],
    [analysis |-> "a2", metrics |-> "k2", visualizations |-> << "plot" >>] }

QueryRejections ==
  { [response |-> None],
    [response |-> Some([data |-> [error |-> None]])],
    [response |-> Some([data |-> [error |-> Some("Query failed on server")]])] }

\* texts the user may have in the query box; a text is a sequence of
\* characters so that trim() is computed
QueryTexts == { << " " >>, << " ", "q", " " >> }

RECURSIVE TrimStart(_)
TrimStart(s) ==
  IF s = << >> THEN << >>
  ELSE IF Head(s) = " " THEN TrimStart(Tail(s)) ELSE s

RECURSIVE TrimEnd(_)
TrimEnd(s) ==
  IF s = << >> THEN << >>
  ELSE IF s[Len(s)] = " " THEN TrimEnd(SubSeq(s, 1, Len(s) - 1)) ELSE s

\* String.prototype.trim
Trim(s) == TrimEnd(TrimStart(s))

(***************************************************************************)
(* QueryInput.js, handleFileUpload: the warning normaliser.                *)
(***************************************************************************)
\* the value of a property name that is a canonical array index, -1 for
\* any other name; Object.entries lists array-index names first
ArrayIndex(name) ==
  CASE name = "1" -> 1
    [] name = "2" -> 2
    [] OTHER -> -1

RECURSIVE InsertByIndex(_, _)
InsertByIndex(e, sorted) ==
  IF sorted = << >> THEN << e >>
  ELSE IF ArrayIndex(e.name) < ArrayIndex(Head(sorted).name)
       THEN << e >> \o sorted
       ELSE << Head(sorted) >> \o InsertByIndex(e, Tail(sorted))

RECURSIVE SortByIndex(_)
SortByIndex(es) ==
  IF es = << >> THEN << >>
  ELSE InsertByIndex(Head(es), SortByIndex(Tail(es)))

\* Object.entries(all_sheets_data): array-index keys in ascending numeric
\* order, then the other keys in the order the object was built
ObjectEntries(sheets) ==
  SortByIndex(SelectSeq(sheets, LAMBDA e : ArrayIndex(e.name) >= 0))
    \o SelectSeq(sheets, LAMBDA e : ArrayIndex(e.name) < 0)

\* the mutant of the tagging: a warning without severity gets "warning"
RECURSIVE TagWarningsDefaultSeverity(_, _)
TagWarningsDefaultSeverity(sheetName, ws) ==
  IF ws = << >> THEN << >>
  ELSE << [sheet |-> Some(sheetName), type |-> Head(ws).type,
           message |-> Head(ws).message,
           severity |-> IF Head(ws).severity = None THEN Some("warning")
                        ELSE Head(ws).severity] >>
       \o TagWarningsDefaultSeverity(sheetName, Tail(ws))

\* { ...warning, sheet: sheetName } for each warning of one sheet
RECURSIVE TagWarnings(_, _)
TagWarnings(sheetName, ws) ==
  IF ws = << >> THEN << >>
  ELSE << [sheet |-> Some(sheetName), type |-> Head(ws).type,
           message |-> Head(ws).message, severity |-> Head(ws).severity] >>
       \o TagWarnings(sheetName, Tail(ws))

\* the forEach over the entries pushing into allWarnings
RECURSIVE CollectWarnings(_)
CollectWarnings(entries) ==
  IF entries = << >> THEN << >>
  ELSE (IF Len(Head(entries).warnings) > 0
        THEN TagWarnings(Head(entries).name, Head(entries).warnings)
        ELSE << >>)
       \o CollectWarnings(Tail(entries))

\* allWarnings of a success response whose all_sheets_data is present
allWarnings(data) == CollectWarnings(ObjectEntries(Val(data.all_sheets_data)))

\* sheet_errors.map(err => ({type, message, severity}))
RECURSIVE SheetErrorWarnings(_)
SheetErrorWarnings(errs) ==
  IF errs = << >> THEN << >>
  ELSE << [sheet |-> None, type |-> "sheet_error",
           message |-> "Sheet \"" \o Head(errs).sheet \o "\": " \o Head(errs).error,
           severity |-> Some("error")] >>
       \o SheetErrorWarnings(Tail(errs))

\* the class a stored warning is rendered with: warning.severity || 'warning'
severityClass(warning) ==
  IF warning.severity # None THEN Val(warning.severity) ELSE "warning"

(***************************************************************************)
(* State.                                                                  *)
(***************************************************************************)
VARIABLES
  currentFile,      \* DataAgent: useState(null), the current dataset
  insights,         \* DataAgent: useState(null)
  loading,          \* DataAgent: useState(false)
  error,            \* DataAgent: useState(null)
  analysisResult,   \* DataAgent: useState(null)
  warnings,         \* DataAgent: useState([])
  validationError,  \* FileUpload: useState(null)
  query,            \* QueryInput: useState(''), lost when QueryInput unmounts
  uploads,          \* upload requests awaiting their response
  queries,          \* query requests awaiting their response
  uploadsStarted,   \* number of upload requests issued so far
  queriesStarted,   \* number of query requests issued so far
  settledUpload,    \* greatest number of an upload whose response was processed
  origin,           \* which upload currentFile and analysisResult stem from
  last              \* the handler step that produced this state

session == << currentFile, insights, analysisResult, warnings, loading, error >>

widgets == << validationError, query >>

network == << uploads, queries, uploadsStarted, queriesStarted, settledUpload >>

vars == << currentFile, insights, loading, error, analysisResult, warnings,
           validationError, query, uploads, queries,
           uploadsStarted, queriesStarted, settledUpload, origin, last >>

\* requests are numbered in the order they are issued
nextId == uploadsStarted + queriesStarted + 1

\* the record of a step: the handler, the request it concerns (0 for none),
\* the file it was given, how it went, for a step that starts an upload
\* whether the session it discards held a dataset and an analysis, for a
\* step that processes a response what the call settled to (reply) and the
\* views of the session rendered while it ran (frames)
Step(op, id, file, outcome) ==
  [op |-> op, id |-> id, file |-> file, outcome |-> outcome,
   prior |-> IF outcome = "accept"
             THEN [dataset |-> currentFile # None,
                   analysis |-> analysisResult # None]
             ELSE [dataset |-> FALSE, analysis |-> FALSE],
   reply |-> None, frames |-> << >>]

Init ==
  /\ currentFile = None
  /\ insights = None
  /\ loading = FALSE
  /\ error = None
  /\ analysisResult = None
  /\ warnings = << >>
  /\ validationError = None
  /\ query = << >>
  /\ uploads = {}
  /\ queries = {}
  /\ uploadsStarted = 0
  /\ queriesStarted = 0
  /\ settledUpload = 0
  /\ origin = [dataset |-> 0, analysis |-> 0]
  /\ last = Step("init", 0, NoFile, "-")

(***************************************************************************)
(* DataAgent.handleFileUpload, up to its await.                            *)
(***************************************************************************)
\* the mutant of the reset: the previous analysis survives a new upload
ClearSessionKeepAnalysis ==
  /\ error' = None
  /\ warnings' = << >>
  /\ currentFile' = None
  /\ insights' = None
  /\ analysisResult' = analysisResult

\* setError(null) ... setAnalysisResult(null)
ClearSession ==
  /\ error' = None
  /\ warnings' = << >>
  /\ currentFile' = None
  /\ insights' = None
  /\ analysisResult' = None

\* the call of handleFileUpload(file): the state is reset and the request
\* is sent.  The render that follows unmounts QueryInput (currentFile is
\* null), which drops its text.
handleFileUpload(file) ==
  /\ loading' = TRUE
  /\ ClearSession
  /\ query' = << >>
  /\ uploads' = uploads \cup { [id |-> nextId, file |-> file] }
  /\ uploadsStarted' = uploadsStarted + 1
  /\ origin' = [dataset |-> 0, analysis |-> 0]
  /\ UNCHANGED << queries, queriesStarted, settledUpload >>

(***************************************************************************)
(* FileUpload: handleDrag, handleDrop, handleFileInput, the clear button.  *)
(***************************************************************************)
\* handleFileValidation(file) as called by handler op
FileValidationStep(file, op) ==
  LET verdict == handleFileValidation(file) IN
  IF verdict = "accept"
  THEN /\ nextId <= MaxRequests
       /\ validationError' = None
       /\ handleFileUpload(file)
       /\ last' = Step(op, nextId, file, "accept")
  ELSE /\ validationError' = Some(verdict)
       /\ UNCHANGED << session, query, network, origin >>
       /\ last' = Step(op, 0, file, verdict)

HandleDrop(dropped) ==
  /\ IF dropped = None
     THEN /\ validationError' = None
          /\ UNCHANGED << session, query, network, origin >>
          /\ last' = Step("handleDrop", 0, NoFile, "no_file")
     ELSE FileValidationStep(Val(dropped), "handleDrop")

HandleFileInput(file) ==
  /\ FileValidationStep(file, "handleFileInput")

\* the clear-error button, rendered when error or validationError is set
ClearError ==
  /\ error # None \/ validationError # None
  /\ validationError' = None
  /\ UNCHANGED << session, query, network, origin >>
  /\ last' = Step("clearError", 0, NoFile, "-")

(***************************************************************************)
(* DataAgent.handleFileUpload, from its await to its end.                  *)
(***************************************************************************)
Max(a, b) == IF a > b THEN a ELSE b

\* the message the catch block stores for the caught err
uploadErrorMessage(err) ==
  LET data         == IF err.response = None THEN None
                      ELSE Some(Val(err.response).data)
      errorMessage == IF data # None /\ Val(data).error # None
                      THEN Val(Val(data).error)
                      ELSE "Error uploading file"
      errorType    == IF data = None THEN None ELSE Val(data).error_type
  IN  IF errorType # None THEN errorMessage ELSE "Error uploading file"

\* catch (err) { ... setError(...) }
uploadCatch(err) ==
  /\ error' = Some(uploadErrorMessage(err))
  /\ UNCHANGED << currentFile, insights, warnings, origin >>

\* if (!response.data.success) { ...; return; }
uploadFailure(data) ==
  /\ error' = data.error
  /\ warnings' = IF data.sheet_errors # None
                 THEN SheetErrorWarnings(Val(data.sheet_errors))
                 ELSE warnings
  /\ UNCHANGED << currentFile, insights, origin >>

\* the value handed to setCurrentFile: { ...response.data, originalFile: file }
datasetOf(data, file) ==
  [success |-> data.success, error |-> data.error,
   error_type |-> data.error_type, sheet_errors |-> data.sheet_errors,
   all_sheets_data |-> data.all_sheets_data, insights |-> data.insights,
   file_path |-> data.file_path, dataset_id |-> data.dataset_id,
   originalFile |-> file]

\* the rest of the try block for a response with success == true whose
\* all_sheets_data is present
uploadSuccess(u, data) ==
  /\ warnings' = allWarnings(data)
  /\ currentFile' = Some(datasetOf(data, u.file))
  /\ insights' = IF data.insights # None THEN data.insights ELSE insights
  /\ origin' = [origin EXCEPT !.dataset = u.id]
  /\ UNCHANGED error

\* between suspension points the machine runs to completion, so the setter
\* calls made after an await without a suspension point between them are
\* shown to an observer in one render; a root that renders each call apart
\* would be the other case. The file that mounts DataAgent is not among
\* the sources.
RootBatchesUpdates == TRUE

\* the mutant of the success branch: a suspension point after
\* setCurrentFile, so that the view with the new dataset and the old
\* insights is shown
successFramesAwaitBetween(u, data) ==
  LET w      == allWarnings(data)
      cf     == Some(datasetOf(data, u.file))
      ins    == IF data.insights # None THEN data.insights ELSE insights
      before == [warnings |-> warnings = w, currentFile |-> currentFile = cf,
                 insights |-> insights = ins]
      f2     == [before EXCEPT !.warnings = TRUE, !.currentFile = TRUE]
      f3     == [f2 EXCEPT !.insights = TRUE]
  IN  << before, f2, f3 >>

\* what an observer of warnings, currentFile and insights is shown while
\* the success branch runs: the view before it, then one view per render.
\* A view is recorded as which of the three already show the value the
\* branch ends with.
successFrames(u, data) ==
  LET w      == allWarnings(data)
      cf     == Some(datasetOf(data, u.file))
      ins    == IF data.insights # None THEN data.insights ELSE insights
      before == [warnings |-> warnings = w, currentFile |-> currentFile = cf,
                 insights |-> insights = ins]
      f1     == [before EXCEPT !.warnings = TRUE]
      f2     == [f1 EXCEPT !.currentFile = TRUE]
      f3     == [f2 EXCEPT !.insights = TRUE]
  IN  IF RootBatchesUpdates THEN << before, f3 >>
      ELSE << before, f1, f2, f3 >>

\* what every settlement of upload u shares; finally { setLoading(false) }
uploadSettled(u, outcome, reply) ==
  /\ uploads' = uploads \ { u }
  /\ settledUpload' = Max(settledUpload, u.id)
  /\ loading' = FALSE
  /\ last' = [Step("uploadSettled", u.id, NoFile, outcome) EXCEPT
               !.reply = Some(reply),
               !.frames = IF outcome = "success"
                          THEN successFrames(u, reply) ELSE << >>]
  /\ UNCHANGED << analysisResult, widgets, queries, uploadsStarted, queriesStarted >>

\* the upload call resolves with a 2xx response whose body is data
UploadResolved(u, data) ==
  /\ u \in uploads
  /\ IF ~data.success
     THEN uploadFailure(data) /\ uploadSettled(u, "failure", data)
     ELSE IF data.all_sheets_data = None
          \* Object.entries(undefined) throws a TypeError, which the catch
          \* block receives as an err without response
          THEN uploadCatch([response |-> None]) /\ uploadSettled(u, "threw", data)
          ELSE uploadSuccess(u, data) /\ uploadSettled(u, "success", data)

\* the upload call rejects with err
UploadRejected(u, err) ==
  /\ u \in uploads
  /\ uploadCatch(err)
  /\ uploadSettled(u, "rejected", err)

(***************************************************************************)
(* QueryInput and DataAgent.handleQuery.                                   *)
(***************************************************************************)
\* QueryInput is rendered inside the data workspace (currentFile set) and
\* its input and button are disabled while loading
QueryInputEnabled == currentFile # None /\ ~loading

\* onChange of the query box
SetQuery(text) ==
  /\ QueryInputEnabled
  /\ query' = text
  /\ UNCHANGED << session, validationError, network, origin >>
  /\ last' = Step("setQuery", 0, NoFile, "-")

\* the mutant of the guard: the missing dataset also marks the session busy
queryWithoutFileSetsLoading ==
  /\ error' = Some("Please upload a file first")
  /\ loading' = TRUE
  /\ UNCHANGED << currentFile, insights, analysisResult, warnings >>

\* if (!currentFile) { setError('Please upload a file first'); return; }
queryWithoutFile ==
  /\ error' = Some("Please upload a file first")
  /\ UNCHANGED << currentFile, insights, analysisResult, warnings, loading >>

\* the mutant of the request: the file path is sent as the dataset id
queryRequestPathAsId(text) ==
  [id |-> nextId, query |-> text,
   file_path |-> Val(currentFile).file_path,
   dataset_id |-> Val(currentFile).file_path,
   against |-> origin.dataset]

\* the request handleQuery posts: the text with file_path and dataset_id
\* of the currentFile of the render the handler belongs to
queryRequest(text) ==
  [id |-> nextId, query |-> text,
   file_path |-> Val(currentFile).file_path,
   dataset_id |-> Val(currentFile).dataset_id,
   against |-> origin.dataset]

\* handleQuery(text) as called by op, up to its await
handleQuery(text, op) ==
  IF currentFile = None
  THEN /\ queryWithoutFile
       /\ UNCHANGED << widgets, network, origin >>
       /\ last' = Step(op, 0, NoFile, "no_file")
  ELSE /\ nextId <= MaxRequests
       /\ loading' = TRUE
       /\ error' = None
       /\ queries' = queries \cup { queryRequest(text) }
       /\ queriesStarted' = queriesStarted + 1
       /\ UNCHANGED << currentFile, insights, analysisResult, warnings,
                       widgets, uploads, uploadsStarted, settledUpload, origin >>
       /\ last' = Step(op, nextId, NoFile, "sent")

\* QueryInput.handleSubmit: the button is disabled for a blank text
HandleSubmit ==
  /\ QueryInputEnabled
  /\ Trim(query) # << >>
  /\ handleQuery(Trim(query), "handleSubmit")

\* handleQuery called directly, as a caller of the state machine may
CallHandleQuery(text) ==
  handleQuery(text, "handleQuery")

\* what every settlement of query r shares; finally { setLoading(false) }
querySettled(r, outcome, reply) ==
  /\ queries' = queries \ { r }
  /\ loading' = FALSE
  /\ last' = [Step("querySettled", r.id, NoFile, outcome) EXCEPT
               !.reply = Some(reply)]
  /\ UNCHANGED << currentFile, insights, warnings, widgets, uploads,
                  uploadsStarted, queriesStarted, settledUpload >>

\* the query call resolves: setAnalysisResult(response.data)
QueryResolved(r, data) ==
  /\ r \in queries
  /\ analysisResult' = Some(data)
  /\ origin' = [origin EXCEPT !.analysis = r.against]
  /\ UNCHANGED error
  /\ querySettled(r, "success", data)

\* err.response?.data?.error || 'Error processing query'
queryErrorMessage(err) ==
  IF err.response # None /\ Val(err.response).data.error # None
  THEN Val(Val(err.response).data.error)
  ELSE "Error processing query"

\* the mutant of the catch block: a failed query drops the last result
queryCatchDropsResult(err) ==
  /\ error' = Some(queryErrorMessage(err))
  /\ analysisResult' = None
  /\ UNCHANGED origin

\* catch (err) { setError(...) }
queryCatch(err) ==
  /\ error' = Some(queryErrorMessage(err))
  /\ UNCHANGED << analysisResult, origin >>

\* the query call rejects with err
QueryRejected(r, err) ==
  /\ r \in queries
  /\ queryCatch(err)
  /\ querySettled(r, "rejected", err)

(***************************************************************************)
(* Specifications.                                                         *)
(***************************************************************************)
\* the application as a user drives it
Next ==
  \/ \E dropped \in { None } \cup { Some(f) : f \in Files } : HandleDrop(dropped)
  \/ \E file \in Files : HandleFileInput(file)
  \/ ClearError
  \/ \E u \in uploads : \E data \in UploadSuccessData \cup UploadFailureData :
       UploadResolved(u, data)
  \/ \E u \in uploads : \E err \in UploadRejections : UploadRejected(u, err)
  \/ \E text \in QueryTexts : SetQuery(text)
  \/ HandleSubmit
  \/ \E r \in queries : \E data \in AnalysisResults : QueryResolved(r, data)
  \/ \E r \in queries : \E err \in QueryRejections : QueryRejected(r, err)

Spec == Init /\ [][Next]_vars

\* the upload side alone, driven with the wider choice of files
NextGate ==
  \/ \E dropped \in { None } \cup { Some(f) : f \in GateFiles } :
       HandleDrop(dropped) /\ uploadsStarted' <= MaxGateUploads
  \/ \E file \in GateFiles :
       HandleFileInput(file) /\ uploadsStarted' <= MaxGateUploads
  \/ ClearError
  \/ \E u \in uploads : \E data \in UploadSuccessData \cup UploadFailureData :
       UploadResolved(u, data)
  \/ \E u \in uploads : \E err \in UploadRejections : UploadRejected(u, err)

SpecGate == Init /\ [][NextGate]_vars

\* the state machine with handleQuery also called directly
NextAPI ==
  \/ Next
  \/ \E text \in { Trim(t) : t \in QueryTexts } \ { << >> } : CallHandleQuery(text)

SpecAPI == Init /\ [][NextAPI]_vars

(***************************************************************************)
(* Properties.                                                             *)
(***************************************************************************)
UploadSettledStep == last'.op = "uploadSettled"

\* C1: a stale upload response, one that is processed after the response of
\* an upload begun later, leaves currentFile, insights, warnings and error
\* as they were.
C1_StaleUploadIgnored ==
  [][(UploadSettledStep /\ last'.id < settledUpload)
       => UNCHANGED << currentFile, insights, warnings, error >>]_vars

\* C2: a non-null analysisResult was produced by a query issued against the
\* dataset that is the current one; there is none without a dataset.
C2_AnalysisOfCurrentDataset ==
  analysisResult # None =>
    /\ currentFile # None
    /\ origin.analysis = origin.dataset

\* C3: right after an upload settles with a success == true response,
\* loading is false, there is a dataset and no error.
C3_UploadSuccessPost ==
  (last.op = "uploadSettled" /\ last.outcome \in { "success", "threw" })
    => (loading = FALSE /\ currentFile # None /\ error = None)

\* C4: right after an upload settles with a failure (success == false, or
\* a rejected call), there is no dataset and there is an error.
C4_UploadFailurePost ==
  (last.op = "uploadSettled" /\ last.outcome \in { "failure", "rejected" })
    => (currentFile = None /\ error # None)

\* C5: handleQuery called without a dataset sets the fixed error, issues no
\* request and leaves the rest of the session as it was.
C5_QueryWithoutDataset ==
  [][(last'.op \in { "handleQuery", "handleSubmit" } /\ currentFile = None)
       => /\ error' = Some("Please upload a file first")
          /\ UNCHANGED << queries, queriesStarted, uploads, uploadsStarted >>
          /\ UNCHANGED << loading, currentFile, insights, warnings,
                          analysisResult >>]_vars

C5_Witness ==
  /\ last.op = "handleQuery"
  /\ currentFile = None
  /\ error = Some("Please upload a file first")
  /\ queries = {}

\* C6: a query that fails sets an error and leaves analysisResult,
\* currentFile, insights and warnings as they were.
C6_QueryFailureKeepsResult ==
  [][(last'.op = "querySettled" /\ last'.outcome = "rejected")
       => /\ error' # None
          /\ UNCHANGED << analysisResult, currentFile, insights, warnings >>]_vars

C6_Witness ==
  /\ last.op = "querySettled"
  /\ last.outcome = "rejected"
  /\ analysisResult # None
  /\ error # None

\* C7: every settlement of an upload sets loading to false, and one that
\* threw while normalising ends with an error and without a dataset.
C7_UploadEndsClean ==
  last.op = "uploadSettled" =>
    /\ loading = FALSE
    /\ last.outcome = "threw" => (error # None /\ currentFile = None)

\* C8: starting an upload yields, whatever the session held, a state with
\* no error, no warnings, no dataset, no insights, no analysis, and loading.
C8_BeginUploadResets ==
  [][(uploadsStarted' = uploadsStarted + 1)
       => /\ error' = None
          /\ warnings' = << >>
          /\ currentFile' = None
          /\ insights' = None
          /\ analysisResult' = None
          /\ loading' = TRUE]_vars

C8_Witness ==
  /\ last.outcome = "accept"
  /\ last.prior.dataset
  /\ last.prior.analysis
  /\ currentFile = None
  /\ analysisResult = None
  /\ loading

\* C9: at most one upload request is outstanding.
C9_AtMostOneUpload == Cardinality(uploads) <= 1

\* C10: a dropped or selected file starts an upload if and only if its type
\* is one of the three spreadsheet types and its size is at most 16 MiB; an
\* unlisted type yields type_error, a listed type above 16 MiB yields
\* file_too_large, and a rejection leaves session and network as they were.
C10_ValidationGate ==
  [][(last'.op \in { "handleDrop", "handleFileInput" } /\ last'.file # NoFile)
       => LET file   == last'.file
              listed == file.type \in
                { "application/vnd.openxmlformats-officedocument.spreadsheetml.sheet",
                  "application/vnd.ms-excel",
                  "application/vnd.ms-excel.sheet.macroenabled.12" }
              small  == file.size <= 16 * 1024 * 1024
          IN  /\ (uploadsStarted' = uploadsStarted + 1) <=> (listed /\ small)
              /\ (listed /\ small) =>
                   [id |-> uploadsStarted + queriesStarted + 1, file |-> file]
                     \in uploads'
              /\ ~listed => validationError' = Some("type_error")
              /\ (listed /\ ~small) => validationError' = Some("file_too_large")
              /\ ~(listed /\ small) => UNCHANGED << session, network >>]_vars

C10_Witness ==
  /\ last.op \in { "handleDrop", "handleFileInput" }
  /\ last.file.size = 16 * 1024 * 1024
  /\ last.file.type = "application/vnd.ms-excel"
  /\ \E u \in uploads : u.id = last.id /\ u.file = last.file

\* the warnings of the sheets in the order given, each tagged with its sheet
RECURSIVE WarningsInOrder(_)
WarningsInOrder(sheets) ==
  IF sheets = << >> THEN << >>
  ELSE [i \in 1..Len(Head(sheets).warnings) |->
          [sheet |-> Some(Head(sheets).name),
           type |-> Head(sheets).warnings[i].type,
           message |-> Head(sheets).warnings[i].message,
           severity |-> Head(sheets).warnings[i].severity]]
       \o WarningsInOrder(Tail(sheets))

UploadSucceeded == last.op = "uploadSettled" /\ last.outcome = "success"

\* C11: after a success == true response the warnings are the sheets'
\* warnings in the order the backend returned sheets and warnings, each
\* tagged with its sheet, nothing reordered or dropped.
C11_WarningsInBackendOrder ==
  UploadSucceeded =>
    warnings = WarningsInOrder(Val(Val(last.reply).all_sheets_data))

\* C12: after a success == false response the warnings are one sheet_error
\* record per sheet_errors entry, in order, and empty without sheet_errors.
C12_SheetErrorWarnings ==
  (last.op = "uploadSettled" /\ last.outcome = "failure") =>
    LET errs == Val(last.reply).sheet_errors
    IN  IF errs = None THEN warnings = << >>
        ELSE warnings =
               [i \in 1..Len(Val(errs)) |->
                  [sheet |-> None, type |-> "sheet_error",
                   message |-> "Sheet \"" \o Val(errs)[i].sheet \o "\": "
                                 \o Val(errs)[i].error,
                   severity |-> Some("error")]]

\* C13 as stated: every stored warning has severity "error" or "warning".
C13_SeverityStored ==
  \A i \in 1..Len(warnings) :
    warnings[i].severity \in { Some("error"), Some("warning") }

\* C13: every stored warning carries the severity of its source unchanged,
\* "error" for a sheet_error record and none when the raw warning has none;
\* "warning" is substituted only by the render.
C13_SeverityCarried ==
  /\ \A i \in 1..Len(warnings) :
       /\ severityClass(warnings[i]) \in { "error", "warning" }
       /\ warnings[i].type = "sheet_error" => warnings[i].severity = Some("error")
  /\ UploadSucceeded =>
       \A i \in 1..Len(warnings) :
         LET sheets == Val(Val(last.reply).all_sheets_data)
         IN  \E k \in 1..Len(sheets) : \E j \in 1..Len(sheets[k].warnings) :
               /\ warnings[i].sheet = Some(sheets[k].name)
               /\ warnings[i].type = sheets[k].warnings[j].type
               /\ warnings[i].message = sheets[k].warnings[j].message
               /\ warnings[i].severity = sheets[k].warnings[j].severity

C13_Witness ==
  /\ UploadSucceeded
  /\ \E i \in 1..Len(warnings) :
       /\ warnings[i].severity = None
       /\ warnings[i].sheet = Some("B")
       /\ severityClass(warnings[i]) = "warning"

\* C14: after a failed upload whose payload has no error_type the error is
\* the generic upload-failure message, never the server's text.
C14_UntypedErrorIsGeneric ==
  (last.op = "uploadSettled" /\ last.outcome \in { "failure", "rejected" }) =>
    LET reply == Val(last.reply)
        typed == IF last.outcome = "failure" THEN reply.error_type # None
                 ELSE /\ reply.response # None
                      /\ Val(reply.response).data.error_type # None
    IN  ~typed => error = Some("Error uploading file")

\* C15: right after a query resolves successfully analysisResult is exactly
\* its response and there is no error.
C15_QuerySuccessPost ==
  (last.op = "querySettled" /\ last.outcome = "success") =>
    (analysisResult = last.reply /\ error = None)

C18_LoadingIffInFlight ==
  loading <=> (uploads # {} \/ queries # {})

\* C19: insights, when set, are those of the current dataset's response.
C19_InsightsOfCurrentDataset ==
  insights # None =>
    (currentFile # None /\ insights = Val(currentFile).insights)

====
